---- MODULE Spec2Model ----
(***************************************************************************)
(* Model of src/cpp/mainwindow.h: the declaration of class MainWindow.     *)
(*                                                                         *)
(* The header declares a class that derives publicly from QMainWindow,     *)
(* holds one private data member (SettingsWindow *settingswindow) and one  *)
(* public constructor MainWindow(QWidget *parent = 0).  The state machine  *)
(* below is the life of the MainWindow objects of a program that includes  *)
(* this header, together with what code outside the class can do to them   *)
(* through the declaration: construct them (with or without an argument),  *)
(* destroy them (implicit destructor), name the data member, call a member *)
(* function by name, and convert a MainWindow* to another class type.      *)
(* SettingsWindow is an incomplete type here; its objects are created and  *)
(* destroyed by code that is not in this header.                           *)
(***************************************************************************)
EXTENDS Naturals, Sequences, FiniteSets

(* ----------------------------- bounds ---------------------------------- *)
MaxWindow   == 2   \* MainWindow objects the program may create
MaxWidget   == 1   \* distinct non-null QWidget* values usable as a parent
MaxSettings == 1   \* distinct non-null SettingsWindow* values (addresses)

Windows         == 1..MaxWindow
SettingsWindows == 1..MaxSettings

(* --------------------------- pointer values ---------------------------- *)
\* the null pointer, written 0 in the header (line 27)
NULL == 0

\* values of type QWidget* : null or the address of a widget
QWidget == 0..MaxWidget

\* values of type SettingsWindow* (line 21): null or an address, whether or
\* not a SettingsWindow currently lives there
SettingsWindowPtr == 0..MaxSettings

\* result of a read that did not compile
NoValue == MaxSettings + 1

(* ------------------------ the class declaration ------------------------ *)
\* line 27: the default argument of the constructor's only parameter
DefaultParent == NULL

\* the ways the constructor can be called: MainWindow() or MainWindow(p)
CallForms == {<< >>} \cup { <<p>> : p \in QWidget }

BindParent_ignore(args) == DefaultParent

\* line 27: value of the parameter `parent` for a call with these arguments:
\* the argument when one is given, the default argument otherwise
BindParent(args) == IF Len(args) = 0 THEN DefaultParent ELSE args[1]

AccessOf_public(member) == "public"

\* lines 17-27: access of the members the class declares.  settingswindow
\* follows `private:`, the constructor follows `public:`
AccessOf(member) ==
  IF member = "settingswindow" THEN "private"
  ELSE IF member = "MainWindow" THEN "public"
  ELSE "none"

\* lines 19-21: the data members the class declares
DataMembers == {"settingswindow"}

OwnMethods_override == {"show"}

\* lines 23-27: the member functions, other than the constructor, that the
\* class declares: none
OwnMethods == {}

BaseAccess_private(class) ==
  IF class = "QMainWindow" THEN "private" ELSE "none"

\* line 15: `class MainWindow : public QMainWindow` - the access of each
\* direct base class; "none" for a class that is not a base
BaseAccess(class) ==
  IF class = "QMainWindow" THEN "public" ELSE "none"

\* class types named in the header (lines 3-8, 15)
Classes == {"QMainWindow", "SettingsWindow"}

\* member functions of the base outside code may call on a MainWindow
BaseMethods == {"show", "close"}

(* ------------------------------- state --------------------------------- *)
VARIABLES
  pc,              \* lifetime of each MainWindow object
  ctorArgs,        \* the argument list each live object was constructed with
  parent,          \* value of the constructor's parameter `parent`
  settingswindow,  \* the member MainWindow::settingswindow of each object
  swAlive,         \* addresses at which a SettingsWindow currently lives
  last             \* the operation performed by the latest step

vars == <<pc, ctorArgs, parent, settingswindow, swAlive, last>>

Ops == {"none", "construct", "destroy", "read", "write", "call", "convert",
        "swcreate", "swdestroy"}

Rec(op, w, ok, cls, seen, err) ==
  [op |-> op, w |-> w, ok |-> ok, cls |-> cls, seen |-> seen, err |-> err]

TypeOK ==
  /\ pc \in [Windows -> {"unallocated", "constructed", "destroyed"}]
  /\ ctorArgs \in [Windows -> CallForms]
  /\ parent \in [Windows -> QWidget]
  /\ settingswindow \in [Windows -> SettingsWindowPtr]
  /\ swAlive \subseteq SettingsWindows
  /\ last.op \in Ops
  /\ last.w \in 0..(MaxWindow + MaxSettings)
  /\ last.ok \in BOOLEAN
  /\ last.err \in BOOLEAN
  /\ last.cls \in Classes \cup {"MainWindow", "none"}
  /\ last.seen \in SettingsWindowPtr \cup {NoValue}

Init ==
  /\ pc = [w \in Windows |-> "unallocated"]
  /\ ctorArgs = [w \in Windows |-> << >>]
  /\ parent = [w \in Windows |-> NULL]
  /\ settingswindow = [w \in Windows |-> NULL]
  /\ swAlive = {}
  /\ last = Rec("none", 0, TRUE, "none", NoValue, FALSE)

(* ------------------------------ operations ----------------------------- *)
\* MainWindow::MainWindow(QWidget *parent = 0), called from outside the
\* class with the argument list args.  The parameter is bound as line 27
\* says.  The member has no default initializer (line 21) and the
\* constructor's body is not in the header, so the member's value when the
\* constructor returns is any SettingsWindow* value.
Construct(w, args, sw) ==
  /\ pc[w] = "unallocated"
  /\ AccessOf("MainWindow") = "public"
  /\ pc' = [pc EXCEPT ![w] = "constructed"]
  /\ ctorArgs' = [ctorArgs EXCEPT ![w] = args]
  /\ parent' = [parent EXCEPT ![w] = BindParent(args)]
  /\ settingswindow' = [settingswindow EXCEPT ![w] = sw]
  /\ last' = Rec("construct", w, TRUE, "MainWindow", NoValue, FALSE)
  /\ UNCHANGED swAlive

DestroyPointee_owning(w) == swAlive \ {settingswindow[w]}

\* what the destructor of MainWindow does to the SettingsWindow objects: the
\* class declares no destructor and the member is a raw pointer (line 21),
\* so the implicit destructor leaves the pointee alone
DestroyPointee(w) == swAlive

\* the implicit destructor ~MainWindow()
Destroy(w) ==
  /\ pc[w] = "constructed"
  /\ pc' = [pc EXCEPT ![w] = "destroyed"]
  /\ ctorArgs' = [ctorArgs EXCEPT ![w] = << >>]
  /\ parent' = [parent EXCEPT ![w] = NULL]
  /\ swAlive' = DestroyPointee(w)
  /\ last' = Rec("destroy", w, TRUE, "MainWindow", NoValue, FALSE)
  /\ UNCHANGED settingswindow

\* code outside the class reads w.member: well-formed only for a public
\* member
Read(w, member) ==
  /\ pc[w] = "constructed"
  /\ LET ok == AccessOf(member) = "public"
     IN  last' = Rec("read", w, ok, "MainWindow",
                     IF ok THEN settingswindow[w] ELSE NoValue, FALSE)
  /\ UNCHANGED <<pc, ctorArgs, parent, settingswindow, swAlive>>

\* code outside the class assigns w.member = v
Write(w, member, v) ==
  /\ pc[w] = "constructed"
  /\ LET ok == AccessOf(member) = "public"
     IN  /\ settingswindow' =
              IF ok THEN [settingswindow EXCEPT ![w] = v] ELSE settingswindow
         /\ last' = Rec("write", w, ok, "MainWindow", NoValue, FALSE)
  /\ UNCHANGED <<pc, ctorArgs, parent, swAlive>>

\* code outside the class calls w.name(...).  Name lookup starts in
\* MainWindow; a name the class does not declare is looked up in its base
\* and is callable from outside when the base is public.  A member function
\* declared by MainWindow would run a body that is not in the header: it
\* may store any value v in the member and may fail.
Call(w, name, v, fails) ==
  /\ pc[w] = "constructed"
  /\ IF name \in OwnMethods
       THEN /\ settingswindow' = [settingswindow EXCEPT ![w] = v]
            /\ last' = Rec("call", w, TRUE, "MainWindow", NoValue, fails)
       ELSE /\ settingswindow' = settingswindow
            /\ last' = Rec("call", w, BaseAccess("QMainWindow") = "public",
                           "QMainWindow", NoValue, FALSE)
  /\ UNCHANGED <<pc, ctorArgs, parent, swAlive>>

\* code outside the class uses a MainWindow* where a pointer to `class` is
\* expected: the implicit conversion exists only to a public base
Convert(w, class) ==
  /\ pc[w] = "constructed"
  /\ last' = Rec("convert", w, BaseAccess(class) = "public", class,
                 NoValue, FALSE)
  /\ UNCHANGED <<pc, ctorArgs, parent, settingswindow, swAlive>>

\* a SettingsWindow is created at address s by code outside this header
SWCreate(s) ==
  /\ s \notin swAlive
  /\ swAlive' = swAlive \cup {s}
  /\ last' = Rec("swcreate", MaxWindow + s, TRUE, "SettingsWindow",
                 NoValue, FALSE)
  /\ UNCHANGED <<pc, ctorArgs, parent, settingswindow>>

\* the SettingsWindow at address s is destroyed by code outside this header
SWDestroy(s) ==
  /\ s \in swAlive
  /\ swAlive' = swAlive \ {s}
  /\ last' = Rec("swdestroy", MaxWindow + s, TRUE, "SettingsWindow",
                 NoValue, FALSE)
  /\ UNCHANGED <<pc, ctorArgs, parent, settingswindow>>

Next ==
  \/ \E w \in Windows, args \in CallForms, sw \in SettingsWindowPtr :
        Construct(w, args, sw)
  \/ \E w \in Windows : Destroy(w)
  \/ \E w \in Windows, m \in DataMembers : Read(w, m)
  \/ \E w \in Windows, m \in DataMembers, v \in SettingsWindowPtr :
        Write(w, m, v)
  \/ \E w \in Windows, n \in BaseMethods, v \in SettingsWindowPtr,
        f \in BOOLEAN : Call(w, n, v, f)
  \/ \E w \in Windows, c \in Classes : Convert(w, c)
  \/ \E s \in SettingsWindows : SWCreate(s)
  \/ \E s \in SettingsWindows : SWDestroy(s)

Spec == Init /\ [][Next]_vars

(* ------------------------------ properties ----------------------------- *)
\* C1: the constructor's single parameter is optional.  A MainWindow
\* constructed with no argument has the null pointer (0) as its parent; a
\* MainWindow constructed with an argument has that argument as its parent.
C1_OptionalParent ==
  \A w \in Windows :
    pc[w] = "constructed" =>
      /\ Len(ctorArgs[w]) <= 1
      /\ (ctorArgs[w] = << >> => parent[w] = 0)
      /\ (ctorArgs[w] # << >> => parent[w] = ctorArgs[w][1])

\* one window constructed without an argument and one with a non-null one
C1_Witness ==
  \E w1, w2 \in Windows :
    /\ pc[w1] = "constructed" /\ ctorArgs[w1] = << >> /\ parent[w1] = 0
    /\ pc[w2] = "constructed" /\ ctorArgs[w2] # << >> /\ parent[w2] # 0

\* C2: the constructor is the only operation MainWindow declares.  Once a
\* MainWindow has been constructed, no step changes its settingswindow
\* pointer, and a member function called on it is never one declared by
\* MainWindow and never reports an error.
C2_OnlyConstructor ==
  [][\A w \in Windows :
       pc[w] = "constructed" =>
         /\ settingswindow'[w] = settingswindow[w]
         /\ (last'.op = "call" /\ last'.w = w =>
               last'.cls # "MainWindow" /\ ~last'.err)]_vars

\* a member function has just been called on a constructed window whose
\* pointer is not null
C2_Witness ==
  /\ last.op = "call"
  /\ last.w \in Windows
  /\ pc[last.w] = "constructed"
  /\ settingswindow[last.w] # NULL

C4_PublicBase ==
  /\ (last.op = "convert" => (last.ok <=> last.cls = "QMainWindow"))
  /\ (last.op = "call" => last.ok /\ last.cls = "QMainWindow")

\* a MainWindow has just been used as a QMainWindow
C4_Witness ==
  /\ last.op = "convert"
  /\ last.cls = "QMainWindow"
  /\ last.ok
  /\ pc[last.w] = "constructed"

====
